---------------------------- MODULE Spec2Model ----------------------------
(***************************************************************************)
(* Model of the raster-to-collision-geometry pipeline of CanvasAnimation   *)
(* (utils/boundingShapeNode.js and the browser copy js/boundingShape.js):  *)
(* contour tracing, Douglas-Peucker simplification, convexity test,        *)
(* Bayazit decomposition and the phase-3 optimizer, together with the two  *)
(* metadata generators that call them.                                     *)
(*                                                                         *)
(* Numbers.  Coordinates are JavaScript numbers.  Traced pixels are        *)
(* integers; intersection (Steiner) points are quotients.  The model keeps *)
(* every number as an exact rational <<n, d>> with d > 0 in lowest terms,  *)
(* and Number.MAX_VALUE as <<1, 0>>, which compares greater than every     *)
(* rational under RLt.                                                      *)
(***************************************************************************)
EXTENDS Integers, Sequences, FiniteSets, TLC

(***************************************************************************)
(* Bounds of the model.                                                    *)
(***************************************************************************)
\* a sprite region has sides of at most MaxSide pixels and at most MaxPixels pixels
MaxSide == 3
MaxPixels == 9
\* a point sequence handed to douglasPeucker directly has at most MaxPts points,
\* with x in 0..MaxCoord and y in 0..1
MaxPts == 4
MaxCoord == 2
\* a polygon handed to isConvex directly has 3 to StarVerts vertices, with x in
\* 0..MaxCoord and y in 0..2
StarVerts == 5
\* most objects an ObjectManager run creates, most removals pending at once
MaxObjects == 4
MaxPending == 2

(***************************************************************************)
(* Exact rational arithmetic standing for JavaScript number arithmetic.    *)
(***************************************************************************)
Abs(i) == IF i < 0 THEN -i ELSE i

RECURSIVE GCD(_, _)
GCD(a, b) == IF b = 0 THEN a ELSE GCD(b, a % b)

Norm(n, d) ==
    LET nn == IF d < 0 THEN -n ELSE n
        dd == IF d < 0 THEN -d ELSE d
        g  == GCD(Abs(nn), dd)
    IN  <<nn \div g, dd \div g>>

R(i) == <<i, 1>>
Zero == <<0, 1>>
One == <<1, 1>>
RAdd(a, b) == Norm(a[1] * b[2] + b[1] * a[2], a[2] * b[2])
RSub(a, b) == Norm(a[1] * b[2] - b[1] * a[2], a[2] * b[2])
RMul(a, b) == Norm(a[1] * b[1], a[2] * b[2])
RDiv(a, b) == Norm(a[1] * b[2], a[2] * b[1])
RLt(a, b) == a[1] * b[2] < b[1] * a[2]
RLe(a, b) == a[1] * b[2] <= b[1] * a[2]
RAbs(a) == <<Abs(a[1]), a[2]>>
RMax(a, b) == IF RLt(a, b) THEN b ELSE a
Sgn(a) == IF a[1] > 0 THEN 1 ELSE IF a[1] < 0 THEN -1 ELSE 0

MAX_VALUE == <<1, 0>>

Pt(px, py) == [x |-> R(px), y |-> R(py)]

\* 0-based element access, as in the source's arrays
Elem(s, i) == s[i + 1]

\* Array.prototype.slice(from, to + 1): the elements with indexes from..to
Slice(s, from, to) == [k \in 1..(to - from + 1) |-> s[from + k]]


(***************************************************************************)
(* marchingSquares: pixel predicates and the Moore-neighbour walk.         *)
(* data holds the alpha channel only, one entry per pixel in row-major     *)
(* order (the source reads data[(y * width + x) * 4 + 3]).                 *)
(***************************************************************************)
getAlpha(data, width, height, px, py) ==
    IF px < 0 \/ px >= width \/ py < 0 \/ py >= height
    THEN 0
    ELSE data[py * width + px + 1]

\* isSolid with the cutoff ignored: any pixel with alpha above 0 counts as solid
isSolidAnyAlpha(data, width, height, threshold, px, py) ==
    getAlpha(data, width, height, px, py) > 0

isSolid(data, width, height, threshold, px, py) ==
    getAlpha(data, width, height, px, py) >= threshold

\* index (row-major) of the first solid pixel, -1 when there is none
findStart(data, width, height, threshold) ==
    LET solid == {k \in 0..(width * height - 1) :
                     isSolid(data, width, height, threshold, k % width, k \div width)}
    IN  IF solid = {} THEN -1
        ELSE CHOOSE k \in solid : \A m \in solid : k <= m

directions ==
    << [dx |-> 1,  dy |-> 0],  [dx |-> 1,  dy |-> 1],
       [dx |-> 0,  dy |-> 1],  [dx |-> -1, dy |-> 1],
       [dx |-> -1, dy |-> 0],  [dx |-> -1, dy |-> -1],
       [dx |-> 0,  dy |-> -1], [dx |-> 1,  dy |-> -1] >>

\* the offsets i in 0..7 whose neighbour (direction + i) % 8 is solid
solidOffsets(data, width, height, threshold, cx, cy, dir) ==
    {i \in 0..7 :
        LET checkDir == (dir + i) % 8
        IN  isSolid(data, width, height, threshold,
                    cx + Elem(directions, checkDir).dx,
                    cy + Elem(directions, checkDir).dy)}

maxIterationsOf(width, height) == width * height * 4

(***************************************************************************)
(* douglasPeucker                                                          *)
(***************************************************************************)
\* dx * dx + dy * dy
sumSq(dx, dy) == RAdd(RMul(dx, dx), RMul(dy, dy))

\* lines 112-113: t, the position of p's projection along the segment; 0 when
\* the segment is a single point (the source then leaves x, y at p1)
segParam(p, p1, dx, dy) ==
    IF dx # Zero \/ dy # Zero
    THEN RDiv(RAdd(RMul(RSub(p.x, p1.x), dx), RMul(RSub(p.y, p1.y), dy)),
              sumSq(dx, dy))
    ELSE Zero

\* lines 115-121: one coordinate of the segment point closest to p
closestCoord(a1, a2, d, t) ==
    IF RLt(One, t) THEN a2
    ELSE IF RLt(Zero, t) THEN RAdd(a1, RMul(d, t))
    ELSE a1

\* lines 124-127
segDistAt(p, p1, p2, dx, dy, t) ==
    sumSq(RSub(p.x, closestCoord(p1.x, p2.x, dx, t)),
          RSub(p.y, closestCoord(p1.y, p2.y, dy, t)))

segDistAlong(p, p1, p2, dx, dy) ==
    segDistAt(p, p1, p2, dx, dy, segParam(p, p1, dx, dy))

getSqSegDist(p, p1, p2) ==
    segDistAlong(p, p1, p2, RSub(p2.x, p1.x), RSub(p2.y, p1.y))

\* the for loop of simplifyDPStep: <<maxSqDist, index>> after scanning i..last-1;
\* index -1 stands for the source's undefined
RECURSIVE dpScan(_, _, _, _, _, _)
dpScan(points, first, last, i, maxSqDist, index) ==
    IF i >= last THEN <<maxSqDist, index>>
    ELSE LET sqDist == getSqSegDist(Elem(points, i), Elem(points, first), Elem(points, last))
         IN  IF RLt(maxSqDist, sqDist)
             THEN dpScan(points, first, last, i + 1, sqDist, i)
             ELSE dpScan(points, first, last, i + 1, maxSqDist, index)

RECURSIVE simplifyDPStep(_, _, _, _)

\* lines 144-152 with the keep test inverted: the farthest point is kept when
\* its distance does not exceed the tolerance
keepFarthestInverted(points, first, last, sqTolerance, scan) ==
    IF scan[2] # -1 /\ RLe(scan[1], sqTolerance)
    THEN (IF scan[2] - first > 1
          THEN simplifyDPStep(points, first, scan[2], sqTolerance) ELSE <<>>)
         \o <<Elem(points, scan[2])>>
         \o (IF last - scan[2] > 1
             THEN simplifyDPStep(points, scan[2], last, sqTolerance) ELSE <<>>)
    ELSE <<>>

\* lines 144-152: scan is <<maxSqDist, index>> as the for loop left them
keepFarthest(points, first, last, sqTolerance, scan) ==
    IF RLt(sqTolerance, scan[1])
    THEN (IF scan[2] - first > 1
          THEN simplifyDPStep(points, first, scan[2], sqTolerance) ELSE <<>>)
         \o <<Elem(points, scan[2])>>
         \o (IF last - scan[2] > 1
             THEN simplifyDPStep(points, scan[2], last, sqTolerance) ELSE <<>>)
    ELSE <<>>

\* simplifyDPStep with the keep test inverted (and the scan started below every
\* distance, so that index is always set)
simplifyDPStepInverted(points, first, last, sqTolerance) ==
    keepFarthestInverted(points, first, last, sqTolerance,
                         dpScan(points, first, last, first + 1, <<-1, 1>>, -1))

\* the points simplifyDPStep pushes onto simplified, in push order
simplifyDPStep(points, first, last, sqTolerance) ==
    keepFarthest(points, first, last, sqTolerance,
                 dpScan(points, first, last, first + 1, sqTolerance, -1))

\* douglasPeucker without the final push of points[last]
douglasPeuckerNoLast(points, tolerance) ==
    IF Len(points) <= 2 THEN points
    ELSE LET sqTolerance == RMul(tolerance, tolerance)
             last == Len(points) - 1
         IN  <<Elem(points, 0)>>
             \o simplifyDPStep(points, 0, last, sqTolerance)

douglasPeucker(points, tolerance) ==
    IF Len(points) <= 2 THEN points
    ELSE LET sqTolerance == RMul(tolerance, tolerance)
             last == Len(points) - 1
         IN  <<Elem(points, 0)>>
             \o simplifyDPStep(points, 0, last, sqTolerance)
             \o <<Elem(points, last)>>

(***************************************************************************)
(* isConvex                                                                *)
(***************************************************************************)
cross(o, a, b) ==
    RSub(RMul(RSub(a.x, o.x), RSub(b.y, o.y)),
         RMul(RSub(a.y, o.y), RSub(b.x, o.x)))

\* the loop of isConvex without the c !== 0 guard: a zero counts as negative
RECURSIVE isConvexFromZeroSigned(_, _, _)
isConvexFromZeroSigned(polygon, i, sign) ==
    LET n == Len(polygon)
    IN  IF i >= n THEN TRUE
        ELSE LET c == cross(Elem(polygon, i), Elem(polygon, (i + 1) % n),
                            Elem(polygon, (i + 2) % n))
             IN  IF sign = 0
                 THEN isConvexFromZeroSigned(polygon, i + 1, IF Sgn(c) > 0 THEN 1 ELSE -1)
                 ELSE IF (IF Sgn(c) > 0 THEN 1 ELSE -1) # sign THEN FALSE
                 ELSE isConvexFromZeroSigned(polygon, i + 1, sign)

RECURSIVE isConvexFrom(_, _, _)
isConvexFrom(polygon, i, sign) ==
    LET n == Len(polygon)
    IN  IF i >= n THEN TRUE
        ELSE LET c == cross(Elem(polygon, i), Elem(polygon, (i + 1) % n),
                            Elem(polygon, (i + 2) % n))
             IN  IF Sgn(c) # 0
                 THEN IF sign = 0 THEN isConvexFrom(polygon, i + 1, Sgn(c))
                      ELSE IF Sgn(c) # sign THEN FALSE
                      ELSE isConvexFrom(polygon, i + 1, sign)
                 ELSE isConvexFrom(polygon, i + 1, sign)

isConvex(polygon) ==
    IF Len(polygon) < 3 THEN TRUE ELSE isConvexFrom(polygon, 0, 0)

(***************************************************************************)
(* convexHull                                                              *)
(***************************************************************************)
\* the comparator of the sort: by y-coordinate, then by x-coordinate
beforeYX(a, b) == RLt(a.y, b.y) \/ (a.y = b.y /\ RLt(a.x, b.x))

\* sorted with p put before the first element that p precedes, from index k on
RECURSIVE insertYX(_, _, _)
insertYX(sorted, p, k) ==
    IF k > Len(sorted) THEN Append(sorted, p)
    ELSE IF beforeYX(p, sorted[k])
    THEN SubSeq(sorted, 1, k - 1) \o <<p>> \o SubSeq(sorted, k, Len(sorted))
    ELSE insertYX(sorted, p, k + 1)

\* points.slice().sort(...): points[k..] inserted into the sorted prefix
RECURSIVE sortYX(_, _, _)
sortYX(points, k, sorted) ==
    IF k > Len(points) THEN sorted
    ELSE sortYX(points, k + 1, insertYX(sorted, points[k], 1))

\* the inner loop popping only on a right turn (cross < 0)
RECURSIVE popRightTurns(_, _)
popRightTurns(chain, p) ==
    IF Len(chain) >= 2 /\ Sgn(cross(chain[Len(chain) - 1], chain[Len(chain)], p)) < 0
    THEN popRightTurns(SubSeq(chain, 1, Len(chain) - 1), p)
    ELSE chain

\* the inner while loop: pop while the last two points and p make no left turn
RECURSIVE popNonLeftTurns(_, _)
popNonLeftTurns(chain, p) ==
    IF Len(chain) >= 2 /\ Sgn(cross(chain[Len(chain) - 1], chain[Len(chain)], p)) <= 0
    THEN popNonLeftTurns(SubSeq(chain, 1, Len(chain) - 1), p)
    ELSE chain

\* one half of the hull: the for loop over order[k..]
RECURSIVE halfHull(_, _, _)
halfHull(order, k, chain) ==
    IF k > Len(order) THEN chain
    ELSE halfHull(order, k + 1, Append(popNonLeftTurns(chain, order[k]), order[k]))

reversed(s) == [k \in 1..Len(s) |-> s[Len(s) + 1 - k]]

\* lower.pop() / upper.pop(); the halves are never empty
withoutLast(chain) == SubSeq(chain, 1, Len(chain) - 1)

\* lower.concat(upper) after the two pops, given the sorted points
hullOfSorted(sorted) ==
    withoutLast(halfHull(sorted, 1, <<>>))
        \o withoutLast(halfHull(reversed(sorted), 1, <<>>))

convexHull(points) ==
    IF Len(points) < 3 THEN points
    ELSE hullOfSorted(sortYX(points, 1, <<>>))

(***************************************************************************)
(* Helper functions of the Bayazit decomposition                           *)
(***************************************************************************)
triangleArea(a, b, c) ==
    RSub(RMul(RSub(b.x, a.x), RSub(c.y, a.y)),
         RMul(RSub(c.x, a.x), RSub(b.y, a.y)))

isLeft(a, b, c) == Sgn(triangleArea(a, b, c)) > 0
isLeftOn(a, b, c) == Sgn(triangleArea(a, b, c)) >= 0
isRight(a, b, c) == Sgn(triangleArea(a, b, c)) < 0
isRightOn(a, b, c) == Sgn(triangleArea(a, b, c)) <= 0

\* polygon[i < 0 ? i % s + s : i % s]; TLA+'s % is already non-negative
at(polygon, i) == polygon[(i % Len(polygon)) + 1]

isReflex(polygon, i) ==
    isRight(at(polygon, i - 1), at(polygon, i), at(polygon, i + 1))

sqdist(a, b) ==
    LET dx == RSub(b.x, a.x)
        dy == RSub(b.y, a.y)
    IN  RAdd(RMul(dx, dx), RMul(dy, dy))

segmentsIntersect(p1, p2, q1, q2) ==
    LET dx == RSub(p2.x, p1.x)
        dy == RSub(p2.y, p1.y)
        da == RSub(q2.x, q1.x)
        db == RSub(q2.y, q1.y)
        den == RSub(RMul(da, dy), RMul(db, dx))
        s == RDiv(RAdd(RMul(dx, RSub(q1.y, p1.y)), RMul(dy, RSub(p1.x, q1.x))), den)
        t == RDiv(RAdd(RMul(da, RSub(p1.y, q1.y)), RMul(db, RSub(q1.x, p1.x))),
                  RSub(RMul(db, dx), RMul(da, dy)))
    IN  IF den = Zero THEN FALSE
        ELSE RLe(Zero, s) /\ RLe(s, One) /\ RLe(Zero, t) /\ RLe(t, One)

getIntersectionPoint(p1, p2, q1, q2) ==
    LET a1 == RSub(p2.y, p1.y)
        b1 == RSub(p1.x, p2.x)
        c1 == RAdd(RMul(a1, p1.x), RMul(b1, p1.y))
        a2 == RSub(q2.y, q1.y)
        b2 == RSub(q1.x, q2.x)
        c2 == RAdd(RMul(a2, q1.x), RMul(b2, q1.y))
        det == RSub(RMul(a1, b2), RMul(a2, b1))
    IN  IF RLt(RAbs(det), <<1, 10000>>)
        THEN [x |-> Zero, y |-> Zero]
        ELSE [x |-> RDiv(RSub(RMul(b2, c1), RMul(b1, c2)), det),
              y |-> RDiv(RSub(RMul(a1, c2), RMul(a2, c1)), det)]

canSee(polygon, a, b) ==
    IF isLeftOn(at(polygon, a + 1), at(polygon, a), at(polygon, b))
       /\ isLeftOn(at(polygon, a), at(polygon, b), at(polygon, b - 1))
    THEN FALSE
    ELSE \A i \in 0..(Len(polygon) - 1) :
            \/ (i + 1) % Len(polygon) = a \/ i = a
            \/ (i + 1) % Len(polygon) = b \/ i = b
            \/ ~segmentsIntersect(at(polygon, a), at(polygon, b),
                                  at(polygon, i), at(polygon, i + 1))

(***************************************************************************)
(* bayazitDecomposition: the body executed for the first reflex vertex     *)
(***************************************************************************)
\* the locals declared before the loop over i
bayazitLocals ==
    [upperInt |-> [x |-> Zero, y |-> Zero], lowerInt |-> [x |-> Zero, y |-> Zero],
     upperDist |-> MAX_VALUE, lowerDist |-> MAX_VALUE,
     upperIndex |-> 0, lowerIndex |-> 0]

\* lines 464-470: p is taken as the lower intersection when it is nearer
lowerCandidate(polygon, i, j, v, p) ==
    IF isRight(at(polygon, i + 1), at(polygon, i), p)
       /\ RLt(sqdist(Elem(polygon, i), p), v.lowerDist)
    THEN [v EXCEPT !.lowerDist = sqdist(Elem(polygon, i), p),
                   !.lowerInt = p, !.lowerIndex = j]
    ELSE v

\* lines 482-488: p is taken as the upper intersection when it is nearer
upperCandidate(polygon, i, j, v, p) ==
    IF isLeft(at(polygon, i - 1), at(polygon, i), p)
       /\ RLt(sqdist(Elem(polygon, i), p), v.upperDist)
    THEN [v EXCEPT !.upperDist = sqdist(Elem(polygon, i), p),
                   !.upperInt = p, !.upperIndex = j]
    ELSE v

\* one iteration j of the inner loop: the lower candidate, then the upper one
scanLower(polygon, i, j, v) ==
    IF isLeft(at(polygon, i - 1), at(polygon, i), at(polygon, j))
       /\ isRightOn(at(polygon, i - 1), at(polygon, i), at(polygon, j - 1))
    THEN lowerCandidate(polygon, i, j, v,
                        getIntersectionPoint(at(polygon, i - 1), at(polygon, i),
                                             at(polygon, j), at(polygon, j - 1)))
    ELSE v

scanUpper(polygon, i, j, v) ==
    IF isLeft(at(polygon, i + 1), at(polygon, i), at(polygon, j + 1))
       /\ isRightOn(at(polygon, i + 1), at(polygon, i), at(polygon, j))
    THEN upperCandidate(polygon, i, j, v,
                        getIntersectionPoint(at(polygon, i + 1), at(polygon, i),
                                             at(polygon, j), at(polygon, j + 1)))
    ELSE v

RECURSIVE scanCandidates(_, _, _, _)
scanCandidates(polygon, i, j, v) ==
    IF j >= Len(polygon) THEN v
    ELSE scanCandidates(polygon, i, j + 1,
                        scanUpper(polygon, i, j, scanLower(polygon, i, j, v)))

\* the loop "for j = lowerIndex .. upperIndex" of the vertex branch:
\* <<closestDist, closestIndex>>
RECURSIVE scanClosest(_, _, _, _, _, _)
scanClosest(polygon, i, j, upperIndex, closestDist, closestIndex) ==
    IF j > upperIndex THEN <<closestDist, closestIndex>>
    ELSE LET d == sqdist(at(polygon, i), at(polygon, j))
         IN  IF canSee(polygon, i, j % Len(polygon)) /\ RLt(d, closestDist)
             THEN scanClosest(polygon, i, j + 1, upperIndex, d, j % Len(polygon))
             ELSE scanClosest(polygon, i, j + 1, upperIndex, closestDist, closestIndex)

\* index of the first reflex vertex, -1 when the loop over i finds none
firstReflex(polygon) ==
    LET rs == {i \in 0..(Len(polygon) - 1) : isReflex(polygon, i)}
    IN  IF rs = {} THEN -1 ELSE CHOOSE i \in rs : \A k \in rs : i <= k

\* the Steiner branch pushing the Steiner point onto the lower polygon only
steinerSplitOneSided(polygon, i, v) ==
    LET n == Len(polygon)
        p == [x |-> RDiv(RAdd(v.lowerInt.x, v.upperInt.x), R(2)),
              y |-> RDiv(RAdd(v.lowerInt.y, v.upperInt.y), R(2))]
    IN  IF i < v.upperIndex
        THEN [lowerPoly |-> Slice(polygon, i, v.upperIndex) \o <<p>>,
              upperPoly |-> (IF v.lowerIndex # 0
                             THEN Slice(polygon, v.lowerIndex, n - 1) ELSE <<>>)
                            \o Slice(polygon, 0, i)]
        ELSE [lowerPoly |-> (IF i # 0 THEN Slice(polygon, i, n - 1) ELSE <<>>)
                            \o Slice(polygon, 0, v.upperIndex) \o <<p>>,
              upperPoly |-> Slice(polygon, v.lowerIndex, i)]

\* lines 493-534: the candidates are on adjacent indexes, cut through a Steiner point
steinerSplit(polygon, i, v) ==
    LET n == Len(polygon)
        p == [x |-> RDiv(RAdd(v.lowerInt.x, v.upperInt.x), R(2)),
              y |-> RDiv(RAdd(v.lowerInt.y, v.upperInt.y), R(2))]
    IN  IF i < v.upperIndex
        THEN [lowerPoly |-> Slice(polygon, i, v.upperIndex) \o <<p>>,
              upperPoly |-> <<p>>
                            \o (IF v.lowerIndex # 0
                                THEN Slice(polygon, v.lowerIndex, n - 1) ELSE <<>>)
                            \o Slice(polygon, 0, i)]
        ELSE [lowerPoly |-> (IF i # 0 THEN Slice(polygon, i, n - 1) ELSE <<>>)
                            \o Slice(polygon, 0, v.upperIndex) \o <<p>>,
              upperPoly |-> <<p>> \o Slice(polygon, v.lowerIndex, i)]

\* lines 536-550: index of the closest visible vertex; closestIndex keeps its
\* initial value 0 when the search finds no visible vertex
closestVisible(polygon, i, v) ==
    scanClosest(polygon, i, v.lowerIndex,
                IF v.lowerIndex > v.upperIndex THEN v.upperIndex + Len(polygon)
                ELSE v.upperIndex,
                MAX_VALUE, 0)[2]

\* lines 552-574
cutAtVertex(polygon, i, closestIndex) ==
    IF i < closestIndex
    THEN [lowerPoly |-> Slice(polygon, i, closestIndex),
          upperPoly |-> Slice(polygon, closestIndex, Len(polygon) - 1)
                        \o Slice(polygon, 0, i)]
    ELSE [lowerPoly |-> Slice(polygon, i, Len(polygon) - 1)
                        \o Slice(polygon, 0, closestIndex),
          upperPoly |-> Slice(polygon, closestIndex, i)]

\* lines 535-580: cut through the closest visible vertex
vertexSplit(polygon, i, v) ==
    cutAtVertex(polygon, i, closestVisible(polygon, i, v))

\* line 493: v holds the candidates found for the reflex vertex i
splitBetween(polygon, i, v) ==
    IF v.lowerIndex = (v.upperIndex + 1) % Len(polygon)
    THEN steinerSplit(polygon, i, v)
    ELSE vertexSplit(polygon, i, v)

splitAtReflex(polygon, i) ==
    splitBetween(polygon, i, scanCandidates(polygon, i, 0, bayazitLocals))

\* the two sub-polygons bayazitDecomposition recurses on
bayazitSplit(polygon) == splitAtReflex(polygon, firstReflex(polygon))

\* lines 576-577: the recursive calls, the lower polygon first
recursiveCalls(sp, level) ==
    << [polygon |-> sp.lowerPoly, level |-> level + 1],
       [polygon |-> sp.upperPoly, level |-> level + 1] >>

(***************************************************************************)
(* phase3_optimizeConvexPolygons, Node.js copy and browser copy            *)
(***************************************************************************)
hasThreePoints(polygon) == Len(polygon) >= 3

\* the map callback without the convexity test
keepSimplified(simp, polygon) == simp

\* isConvex(simplified) ? simplified : polygon
keepIfConvex(simp, polygon) == IF isConvex(simp) THEN simp ELSE polygon

phase3Node(polygons, tolerance) ==
    SelectSeq([k \in 1..Len(polygons) |->
                  keepIfConvex(douglasPeucker(polygons[k],
                                              RMax(RMul(tolerance, <<3, 10>>), <<1, 2>>)),
                               polygons[k])],
              hasThreePoints)

phase3Browser(polygons, tolerance) ==
    [k \in 1..Len(polygons) |->
        IF Len(polygons[k]) <= 3 THEN polygons[k]
        ELSE keepIfConvex(douglasPeucker(polygons[k], tolerance), polygons[k])]

phase3_optimizeConvexPolygons(b, polygons, tolerance) ==
    IF b = "node" THEN phase3Node(polygons, tolerance)
    ELSE phase3Browser(polygons, tolerance)

(***************************************************************************)
(* KeyboardControl of the game module                                      *)
(***************************************************************************)
\* BASE.DIRECTION, the bit of each direction
DIRECTION == [LEFT |-> [bit |-> 1], UP |-> [bit |-> 2],
              RIGHT |-> [bit |-> 4], DOWN |-> [bit |-> 8]]

\* the JavaScript operators |, ^ and & ~ on non-negative integers, bit by bit
RECURSIVE bitOr(_, _)
bitOr(a, b) ==
    IF a = 0 /\ b = 0 THEN 0
    ELSE (IF a % 2 = 1 \/ b % 2 = 1 THEN 1 ELSE 0) + 2 * bitOr(a \div 2, b \div 2)

RECURSIVE bitXor(_, _)
bitXor(a, b) ==
    IF a = 0 /\ b = 0 THEN 0
    ELSE (IF a % 2 # b % 2 THEN 1 ELSE 0) + 2 * bitXor(a \div 2, b \div 2)

RECURSIVE bitAndNot(_, _)
bitAndNot(a, b) ==
    IF a = 0 THEN 0
    ELSE (IF a % 2 = 1 /\ b % 2 = 0 THEN 1 ELSE 0) + 2 * bitAndNot(a \div 2, b \div 2)

\* bit field operator for pressing a key
press(old, keyValue) == bitOr(old, keyValue.bit)

\* bit field operator for releasing a key: old ^ keyValue.bit in part_004,
\* old & ~keyValue.bit in js/game.js
up(module, old, keyValue) ==
    IF module = "part_004" THEN bitXor(old, keyValue.bit)
    ELSE bitAndNot(old, keyValue.bit)

\* the event types activate registers the handler for
registeredTypes(module) ==
    IF module = "part_004" THEN {"keypress", "keyup"} ELSE {"keydown", "keyup"}

\* the keys passed to the constructor by setupObjects.js
ConfiguredKeys == [leftKey |-> 37, upKey |-> 38, rightKey |-> 39, downKey |-> 40]

\* key codes of the events the browser delivers: the four keys and the space bar
KeyCodes == {37, 38, 39, 40, 32}
EventTypes == {"keydown", "keypress", "keyup"}

\* the switch of handleKeyPress: the direction of a key code, NoDirection for
\* the default branch
NoDirection == [bit |-> 0]
directionOf(code) ==
    IF code = ConfiguredKeys.leftKey THEN DIRECTION.LEFT
    ELSE IF code = ConfiguredKeys.upKey THEN DIRECTION.UP
    ELSE IF code = ConfiguredKeys.rightKey THEN DIRECTION.RIGHT
    ELSE IF code = ConfiguredKeys.downKey THEN DIRECTION.DOWN
    ELSE NoDirection

\* the field handleKeyPress leaves for an event of the given type and key code
handleKeyPress(module, field, type, code) ==
    IF directionOf(code) = NoDirection THEN field
    ELSE IF type = "keyup" THEN up(module, field, directionOf(code))
    ELSE press(field, directionOf(code))

(***************************************************************************)
(* ObjectManager of the animation module                                   *)
(***************************************************************************)
\* values passed to setOrder; kinds of object createObject builds: one whose
\* update returns the state of its path animation (PaintableWithStateIndicator)
\* and one whose update returns nothing (PaintableWithAnimation)
Orders == {0, 50}
Kinds == {"indicator", "plain"}

\* a ManagedObject as its constructor and setOrder leave it
newObject(order, kind) ==
    [order |-> order, kind |-> kind, state |-> "UNKNOWN", offScreen |-> FALSE]

\* the inner loop of commit: first position j and up whose object has the idx, 0: none
RECURSIVE findIdx(_, _, _)
findIdx(list, idx, j) ==
    IF j > Len(list) THEN 0
    ELSE IF list[j] = idx THEN j
    ELSE findIdx(list, idx, j + 1)

\* list.splice(j, 1), nothing for j = 0
spliceAt(list, j) ==
    IF j = 0 THEN list ELSE SubSeq(list, 1, j - 1) \o SubSeq(list, j + 1, Len(list))

\* the outer loop of commit: the deletions from the i-th on spliced out of the list
RECURSIVE applyDeletions(_, _, _)
applyDeletions(list, dels, i) ==
    IF i > Len(dels) THEN list
    ELSE applyDeletions(spliceAt(list, findIdx(list, dels[i], 1)), dels, i + 1)

\* sorted with idx put behind every element whose order is not greater
RECURSIVE insertByOrder(_, _, _, _)
insertByOrder(sorted, idx, objs, k) ==
    IF k > Len(sorted) THEN Append(sorted, idx)
    ELSE IF Elem(objs, idx).order < Elem(objs, sorted[k]).order
    THEN SubSeq(sorted, 1, k - 1) \o <<idx>> \o SubSeq(sorted, k, Len(sorted))
    ELSE insertByOrder(sorted, idx, objs, k + 1)

\* list.sort(ManagedObject.sortComparator)
RECURSIVE sortByOrder(_, _, _, _)
sortByOrder(list, objs, k, sorted) ==
    IF k > Len(list) THEN sorted
    ELSE sortByOrder(list, objs, k + 1, insertByOrder(sorted, list[k], objs, 1))

\* this.animations after commit
animationsAfterCommit(list, dels, adds, objs) ==
    sortByOrder(applyDeletions(list, dels, 1) \o adds, objs, 1, <<>>)

\* the objects after setState(state) on those whose idx is in the set
withState(objs, idxs, state) ==
    [k \in 1..Len(objs) |->
        IF (k - 1) \in idxs THEN [objs[k] EXCEPT !.state = state] ELSE objs[k]]

\* the idx of a list of objects
idxOf(list) == {list[k] : k \in 1..Len(list)}

(***************************************************************************)
(* Callers and their parameters                                            *)
(***************************************************************************)
Tiers == {"low", "mid", "high"}

\* ACCURACY_LEVELS[tier].marchingSquares of generateBoundingShapeMeta.js
marchingSquaresTolerance(t) ==
    IF t = "low" THEN <<4, 1>> ELSE IF t = "mid" THEN <<2, 1>> ELSE <<1, 1>>

\* ACCURACY_LEVELS[tier].tolerance of generateConvexDecompositionMeta.js
convexDecompositionTolerance(t) ==
    IF t = "low" THEN <<2, 1>> ELSE IF t = "mid" THEN <<1, 1>> ELSE <<1, 2>>

\* threshold: 128 in the options both generators build
GeneratorThreshold == 128

\* recursion ceiling passed by decomposeIntoConvexPolygons
MaxLevel == 100

\* options {threshold, tolerance} a direct caller of the exported functions passes
ApiOptions ==
    { [threshold |-> 128, tolerance |-> <<1, 1>>],
      [threshold |-> 128, tolerance |-> <<0, 1>>],
      [threshold |-> 128, tolerance |-> <<-1, 1>>],
      [threshold |-> 0,   tolerance |-> <<1, 1>>],
      [threshold |-> 255, tolerance |-> <<1, 1>>] }
Alphas == {0, 200}

Regions == {wh \in (0..MaxSide) \X (0..MaxSide) : wh[1] * wh[2] <= MaxPixels}

\* inputs of a direct douglasPeucker call
DPPoints == {[x |-> R(px), y |-> R(py)] : px \in 0..MaxCoord, py \in 0..1}
DPTolerances == {<<0, 1>>, <<1, 2>>, <<1, 1>>}

\* inputs of a direct phase3_optimizeConvexPolygons call: one polygon of up to
\* StarVerts points, or two short polygons on the points with x <= 1
CornerPoints == {p \in DPPoints : p.x[1] <= 1}
OptimizeInputs ==
    {<<p>> : p \in UNION {[1..n -> DPPoints] : n \in 2..StarVerts}}
        \cup {<<q, p>> : q, p \in UNION {[1..n -> CornerPoints] : n \in 2..3}}
OptimizeTolerances == {<<1, 1>>, <<2, 1>>}

\* value of sprite while no record has been pushed
NoSprite == [convexPolygons |-> <<>>, polygonCount |-> -1, totalPoints |-> -1]

\* inputs of a direct isConvex call
GridPoints == {[x |-> R(px), y |-> R(py)] : px \in 0..MaxCoord, py \in 0..2}

VARIABLES
    caller,      \* "generateBoundingShapeMeta" | "generateConvexDecompositionMeta" | "api"
    tier,        \* accuracy tier of a generator run, "none" for an api call
    width, height, data, threshold, tolerance,   \* the call's inputs
    pc,          \* position of the invocation
    start,       \* row-major index of the start pixel (startY * width + startX), -1: none
    currentX, currentY, direction, iterations,   \* locals of marchingSquares
    contour,     \* the contour traced so far / returned by marchingSquares
    simplified,  \* result of phase 1 (douglasPeucker of the contour)
    stack,       \* pending calls of bayazitDecomposition: [polygon, level], next call first
    result,      \* the result array of decomposeIntoConvexPolygons
    build,       \* copy of phase3_optimizeConvexPolygons that ran: "node" | "browser"
    output,      \* the returned polygon set
    outcome,     \* "pending" | "returned" | "thrown"
    tolerance2, simplified2,  \* second tolerance and result of a paired simplify call
    sprite,      \* the record processSpriteSheet pushes for the sprite, NoSprite before
    verdict,     \* what a direct call of isConvex returned
    hull,        \* what a direct call of convexHull returned
    gameModule,  \* copy of the game module that is loaded
    pressedKeysBitField,   \* field of the KeyboardControl object
    lastEventType,         \* per key code, the type of the browser's most recent keydown/keyup
    notified,    \* the arguments of the last changeCallback call, <<>>: none yet
    animations, additions, deletions, counter,   \* fields of the ObjectManager (objects by idx)
    objects,     \* the managed objects created so far, by idx: order, kind, state, offScreen
    removedSinceCommit,   \* idx of the objects passed to remove since the last commit
    lastRemoved, \* removedSinceCommit as it was when the last commit began
    loopArray,   \* the array the update forEach of anim walks
    loopAliased, \* loopArray is still the array object this.animations refers to
    loopIndex, loopLen,   \* index and fixed length of that forEach
    updates,     \* per idx, the number of update calls in the current pass
    passStart    \* the managed list as it was when the current pass began

vars == <<caller, tier, width, height, data, threshold, tolerance, pc, start,
          currentX, currentY, direction, iterations, contour, simplified,
          stack, result, build, output, outcome, tolerance2, simplified2, sprite,
          verdict, hull, gameModule, pressedKeysBitField, lastEventType, notified,
          animations, additions, deletions, counter, objects, removedSinceCommit,
          lastRemoved, loopArray, loopAliased, loopIndex, loopLen, updates, passStart>>

traceVars == <<start, currentX, currentY, direction, iterations>>
inputVars == <<caller, tier, width, height, data, threshold, tolerance, tolerance2>>
keyVars == <<gameModule, pressedKeysBitField, lastEventType, notified>>
\* state of the direct calls and of the keyboard control, untouched by the pipeline
managerVars == <<animations, additions, deletions, counter, objects,
                 removedSinceCommit, lastRemoved>>
loopVars == <<loopArray, loopAliased, loopIndex, loopLen, updates, passStart>>
otherVars == <<verdict, hull, keyVars, managerVars, loopVars>>

\* new ObjectManager() with no game loop running
idleManager ==
    /\ animations = <<>> /\ additions = <<>> /\ deletions = <<>>
    /\ counter = 0
    /\ objects = <<>>
    /\ removedSinceCommit = {} /\ lastRemoved = {}
    /\ loopArray = <<>> /\ loopAliased = FALSE
    /\ loopIndex = 0 /\ loopLen = 0
    /\ updates = [idx \in 0..(MaxObjects - 1) |-> 0]
    /\ passStart = <<>>

\* new KeyboardControl(37, 38, 39, 40) with no event delivered yet
idleKeyboard ==
    /\ gameModule = "js/game.js"
    /\ pressedKeysBitField = 0
    /\ lastEventType = [code \in KeyCodes |-> "none"]
    /\ notified = <<>>

\* no direct call has returned anything yet
idleDirectCalls ==
    /\ verdict = FALSE
    /\ hull = <<>>
    /\ idleKeyboard
    /\ idleManager

(***************************************************************************)
(* Init: a call of computeBoundingShape (by generateBoundingShapeMeta) or  *)
(* of computeOptimizedConvexDecomposition (by the convex decomposition     *)
(* generator, or directly) on one sprite region.  width, height and data   *)
(* are the image data extractSpriteData handed back for the region.        *)
(***************************************************************************)
Init ==
    /\ caller \in {"generateBoundingShapeMeta", "generateConvexDecompositionMeta", "api"}
    /\ tier \in Tiers \cup {"none"}
    /\ (tier = "none") <=> (caller = "api")
    /\ \E wh \in Regions : width = wh[1] /\ height = wh[2]
    /\ data \in [1..(width * height) -> Alphas]
    /\ \E o \in ApiOptions \cup {[threshold |-> GeneratorThreshold,
                                    tolerance |-> marchingSquaresTolerance(tier)],
                                   [threshold |-> GeneratorThreshold,
                                    tolerance |-> convexDecompositionTolerance(tier)]} :
          /\ threshold = o.threshold
          /\ tolerance = o.tolerance
          /\ caller = "api" => o \in ApiOptions
          /\ caller = "generateBoundingShapeMeta"
                => o.tolerance = marchingSquaresTolerance(tier)
                   /\ o.threshold = GeneratorThreshold
          /\ caller = "generateConvexDecompositionMeta"
                => o.tolerance = convexDecompositionTolerance(tier)
                   /\ o.threshold = GeneratorThreshold
    /\ pc = "start"
    /\ start = -1
    /\ currentX = 0 /\ currentY = 0 /\ direction = 0 /\ iterations = 0
    /\ contour = <<>>
    /\ simplified = <<>>
    /\ stack = <<>>
    /\ result = <<>>
    /\ build = "none"
    /\ output = <<>>
    /\ outcome = "pending"
    /\ tolerance2 = Zero
    /\ simplified2 = <<>>
    /\ sprite = NoSprite
    /\ idleDirectCalls

(***************************************************************************)
(* marchingSquares                                                         *)
(***************************************************************************)
\* marchingSquares rejecting a non-positive tolerance or an empty region
MarchingSquaresStartValidating ==
    /\ pc = "start"
    /\ LET s == findStart(data, width, height, threshold)
           invalid == RLe(tolerance, Zero) \/ width * height = 0
       IN  /\ start' = s
           /\ outcome' = IF invalid THEN "thrown" ELSE outcome
           /\ IF invalid \/ s = -1
              THEN /\ pc' = IF invalid THEN "done" ELSE "traced"
                   /\ UNCHANGED <<currentX, currentY, direction>>
              ELSE /\ pc' = "trace"
                   /\ currentX' = s % width
                   /\ currentY' = s \div width
                   /\ direction' = 7
    /\ iterations' = 0
    /\ contour' = <<>>
    /\ UNCHANGED <<inputVars, otherVars, sprite, simplified, stack, result, build, output, simplified2>>

\* lines 11-60: locate the start pixel; return [] when there is none
MarchingSquaresStart ==
    /\ pc = "start"
    /\ LET s == findStart(data, width, height, threshold)
       IN  /\ start' = s
           /\ IF s = -1
              THEN /\ pc' = "traced"
                   /\ UNCHANGED <<currentX, currentY, direction>>
              ELSE /\ pc' = "trace"
                   /\ currentX' = s % width
                   /\ currentY' = s \div width
                   /\ direction' = 7
    /\ iterations' = 0
    /\ contour' = <<>>
    /\ UNCHANGED <<inputVars, otherVars, sprite, simplified, stack, result, build, output, outcome, simplified2>>

\* the do-while loop with a condition that never ends the walk
MarchingSquaresStepNoStop ==
    /\ pc = "trace"
    /\ contour' = Append(contour, Pt(currentX, currentY))
    /\ LET offs == solidOffsets(data, width, height, threshold, currentX, currentY, direction)
       IN  IF offs = {}
           THEN /\ pc' = "traced"
                /\ UNCHANGED <<currentX, currentY, direction, iterations>>
           ELSE LET i == CHOOSE o \in offs : \A m \in offs : o <= m
                    checkDir == (direction + i) % 8
                IN  /\ currentX' = currentX + Elem(directions, checkDir).dx
                    /\ currentY' = currentY + Elem(directions, checkDir).dy
                    /\ direction' = (checkDir + 6) % 8
                    /\ iterations' = iterations + 1
                    /\ pc' = "trace"
    /\ UNCHANGED <<inputVars, otherVars, sprite, start, simplified, stack, result, build, output, outcome,
                   simplified2>>

\* lines 62-85: one pass of the do-while loop
MarchingSquaresStep ==
    /\ pc = "trace"
    /\ contour' = Append(contour, Pt(currentX, currentY))
    /\ LET offs == solidOffsets(data, width, height, threshold, currentX, currentY, direction)
       IN  IF offs = {}
           THEN /\ pc' = "traced"
                /\ UNCHANGED <<currentX, currentY, direction, iterations>>
           ELSE LET i == CHOOSE o \in offs : \A m \in offs : o <= m
                    checkDir == (direction + i) % 8
                    nx == currentX + Elem(directions, checkDir).dx
                    ny == currentY + Elem(directions, checkDir).dy
                IN  /\ currentX' = nx
                    /\ currentY' = ny
                    /\ direction' = (checkDir + 6) % 8
                    /\ iterations' = iterations + 1
                    /\ pc' = IF (nx # start % width \/ ny # start \div width)
                                /\ iterations + 1 < maxIterationsOf(width, height)
                             THEN "trace" ELSE "traced"
    /\ UNCHANGED <<inputVars, otherVars, sprite, start, simplified, stack, result, build, output, outcome,
                   simplified2>>

(***************************************************************************)
(* computeBoundingShape / phase1_marchingSquares after the trace           *)
(***************************************************************************)
Phase1Simplify ==
    /\ pc = "traced"
    /\ simplified' = IF Len(contour) = 0 THEN <<>> ELSE douglasPeucker(contour, tolerance)
    /\ IF caller = "generateBoundingShapeMeta" \/ Len(simplified') = 0
       THEN pc' = "done" /\ outcome' = "returned"
       ELSE pc' = "decompose" /\ outcome' = outcome
    /\ UNCHANGED <<inputVars, otherVars, sprite, traceVars, contour, stack, result, build, output, simplified2>>

(***************************************************************************)
(* decomposeIntoConvexPolygons and bayazitDecomposition                    *)
(***************************************************************************)
\* decomposeIntoConvexPolygons with the length guard off by one (<= 3)
Phase2DecomposeOffByOne ==
    /\ pc = "decompose"
    /\ IF Len(simplified) <= 3
       THEN result' = <<>> /\ stack' = <<>> /\ pc' = "optimize"
       ELSE IF isConvex(simplified)
       THEN result' = <<simplified>> /\ stack' = <<>> /\ pc' = "optimize"
       ELSE result' = <<>> /\ stack' = <<[polygon |-> simplified, level |-> 0]>>
            /\ pc' = "bayazit"
    /\ UNCHANGED <<inputVars, otherVars, sprite, traceVars, contour, simplified, build, output, outcome,
                   simplified2>>

\* lines 590-600
Phase2Decompose ==
    /\ pc = "decompose"
    /\ IF Len(simplified) < 3
       THEN result' = <<>> /\ stack' = <<>> /\ pc' = "optimize"
       ELSE IF isConvex(simplified)
       THEN result' = <<simplified>> /\ stack' = <<>> /\ pc' = "optimize"
       ELSE result' = <<>> /\ stack' = <<[polygon |-> simplified, level |-> 0]>>
            /\ pc' = "bayazit"
    /\ UNCHANGED <<inputVars, otherVars, sprite, traceVars, contour, simplified, build, output, outcome,
                   simplified2>>

\* bayazitDecomposition without the level > maxlevel guard
BayazitCallNoCap ==
    /\ pc = "bayazit"
    /\ stack # <<>>
    /\ LET polygon == Head(stack).polygon
           level == Head(stack).level
       IN  IF Len(polygon) < 3
           THEN result' = result /\ stack' = Tail(stack)
           ELSE IF isConvex(polygon) \/ firstReflex(polygon) = -1
           THEN result' = Append(result, polygon) /\ stack' = Tail(stack)
           ELSE /\ result' = result
                /\ stack' = recursiveCalls(bayazitSplit(polygon), level) \o Tail(stack)
    /\ UNCHANGED <<inputVars, otherVars, sprite, traceVars, contour, simplified, pc, build, output, outcome,
                   simplified2>>

\* lines 427-585: one call of bayazitDecomposition; its two recursive calls are
\* pushed so that the lower polygon is decomposed first
BayazitCall ==
    /\ pc = "bayazit"
    /\ stack # <<>>
    /\ LET polygon == Head(stack).polygon
           level == Head(stack).level
       IN  IF Len(polygon) < 3
           THEN result' = result /\ stack' = Tail(stack)
           ELSE IF level > MaxLevel
           THEN result' = Append(result, polygon) /\ stack' = Tail(stack)
           ELSE IF isConvex(polygon)
           THEN result' = Append(result, polygon) /\ stack' = Tail(stack)
           ELSE IF firstReflex(polygon) = -1
           THEN result' = Append(result, polygon) /\ stack' = Tail(stack)
           ELSE /\ result' = result
                /\ stack' = recursiveCalls(bayazitSplit(polygon), level) \o Tail(stack)
    /\ UNCHANGED <<inputVars, otherVars, sprite, traceVars, contour, simplified, pc, build, output, outcome,
                   simplified2>>

\* line 602
DecomposeReturn ==
    /\ pc = "bayazit"
    /\ stack = <<>>
    /\ result' = IF Len(result) > 0 THEN result ELSE <<simplified>>
    /\ pc' = "optimize"
    /\ UNCHANGED <<inputVars, otherVars, sprite, traceVars, contour, simplified, stack, build, output, outcome,
                   simplified2>>

(***************************************************************************)
(* phase 3 and the return of computeOptimizedConvexDecomposition           *)
(***************************************************************************)
\* the generators run the Node.js copy; a direct caller runs either copy
Phase3Optimize ==
    /\ pc = "optimize"
    /\ \E b \in (IF caller = "api" THEN {"node", "browser"} ELSE {"node"}) :
          /\ build' = b
          /\ output' = phase3_optimizeConvexPolygons(b, result, tolerance)
    /\ pc' = "done"
    /\ outcome' = "returned"
    /\ UNCHANGED <<inputVars, otherVars, sprite, traceVars, contour, simplified, stack, result, simplified2>>

(***************************************************************************)
(* processSpriteSheet of generateConvexDecompositionMeta.js: the record    *)
(* pushed for a sprite once computeOptimizedConvexDecomposition returned   *)
(***************************************************************************)
\* convexPolygons.reduce((sum, poly) => sum + poly.length, 0), from element k on
RECURSIVE reduceLengths(_, _, _)
reduceLengths(polygons, k, sum) ==
    IF k > Len(polygons) THEN sum
    ELSE reduceLengths(polygons, k + 1, sum + Len(polygons[k]))

\* the record built from the polygon list of phase 2 instead of the returned one
PushSpriteRecordBeforeOptimize ==
    /\ pc = "done"
    /\ caller = "generateConvexDecompositionMeta"
    /\ sprite' = [convexPolygons |-> output,
                  polygonCount |-> Len(result),
                  totalPoints |-> reduceLengths(result, 1, 0)]
    /\ pc' = "recorded"
    /\ UNCHANGED <<inputVars, otherVars, traceVars, contour, simplified, stack, result,
                   build, output, outcome, simplified2>>

PushSpriteRecord ==
    /\ pc = "done"
    /\ caller = "generateConvexDecompositionMeta"
    /\ sprite' = [convexPolygons |-> output,
                  polygonCount |-> Len(output),
                  totalPoints |-> reduceLengths(output, 1, 0)]
    /\ pc' = "recorded"
    /\ UNCHANGED <<inputVars, otherVars, traceVars, contour, simplified, stack, result,
                   build, output, outcome, simplified2>>

Next ==
    \/ MarchingSquaresStart
    \/ MarchingSquaresStep
    \/ Phase1Simplify
    \/ Phase2Decompose
    \/ BayazitCall
    \/ DecomposeReturn
    \/ Phase3Optimize
    \/ PushSpriteRecord

Spec == Init /\ [][Next]_vars

(***************************************************************************)
(* Direct calls of douglasPeucker: one point sequence simplified with two  *)
(* tolerances tolerance < tolerance2.                                      *)
(***************************************************************************)
InitDP ==
    /\ caller = "douglasPeucker"
    /\ tier = "none"
    /\ width = 0 /\ height = 0 /\ data = <<>> /\ threshold = GeneratorThreshold
    /\ tolerance \in DPTolerances
    /\ tolerance2 \in DPTolerances
    /\ RLt(tolerance, tolerance2)
    /\ contour \in UNION {[1..n -> DPPoints] : n \in 0..MaxPts}
    /\ pc = "simplify"
    /\ start = -1
    /\ currentX = 0 /\ currentY = 0 /\ direction = 0 /\ iterations = 0
    /\ simplified = <<>>
    /\ stack = <<>>
    /\ result = <<>>
    /\ build = "none"
    /\ output = <<>>
    /\ outcome = "pending"
    /\ simplified2 = <<>>
    /\ sprite = NoSprite
    /\ idleDirectCalls

SimplifyPair ==
    /\ pc = "simplify"
    /\ simplified' = douglasPeucker(contour, tolerance)
    /\ simplified2' = douglasPeucker(contour, tolerance2)
    /\ pc' = "done"
    /\ outcome' = "returned"
    /\ UNCHANGED <<inputVars, otherVars, sprite, traceVars, contour, stack, result, build, output>>

NextDP == SimplifyPair

SpecDP == InitDP /\ [][NextDP]_vars

(***************************************************************************)
(* Direct calls of isConvex on a polygon of grid points.                   *)
(***************************************************************************)
\* a direct call isConvex(polygon), the polygon of one of the given lengths
InitIsConvex(lengths) ==
    /\ caller = "isConvex"
    /\ tier = "none"
    /\ width = 0 /\ height = 0 /\ data = <<>> /\ threshold = GeneratorThreshold
    /\ tolerance = Zero
    /\ tolerance2 = Zero
    /\ contour \in UNION {[1..n -> GridPoints] : n \in lengths}
    /\ pc = "check"
    /\ start = -1
    /\ currentX = 0 /\ currentY = 0 /\ direction = 0 /\ iterations = 0
    /\ simplified = <<>>
    /\ stack = <<>>
    /\ result = <<>>
    /\ build = "none"
    /\ output = <<>>
    /\ outcome = "pending"
    /\ simplified2 = <<>>
    /\ sprite = NoSprite
    /\ idleDirectCalls

InitStar == InitIsConvex(3..StarVerts)

InitConvex == InitIsConvex(0..MaxPts)

CheckConvex ==
    /\ pc = "check"
    /\ verdict' = isConvex(contour)
    /\ pc' = "done"
    /\ outcome' = "returned"
    /\ UNCHANGED <<inputVars, traceVars, contour, simplified, stack, result, build,
                   output, simplified2, sprite, hull, keyVars,
                   managerVars, loopVars>>

NextStar == CheckConvex

SpecStar == InitStar /\ [][NextStar]_vars

NextConvex == CheckConvex

SpecConvex == InitConvex /\ [][NextConvex]_vars

(***************************************************************************)
(* Direct calls of phase3_optimizeConvexPolygons, either copy.             *)
(***************************************************************************)
InitOptimize ==
    /\ caller = "api"
    /\ tier = "none"
    /\ width = 0 /\ height = 0 /\ data = <<>> /\ threshold = GeneratorThreshold
    /\ tolerance \in OptimizeTolerances
    /\ tolerance2 = Zero
    /\ contour = <<>>
    /\ pc = "optimize"
    /\ start = -1
    /\ currentX = 0 /\ currentY = 0 /\ direction = 0 /\ iterations = 0
    /\ simplified = <<>>
    /\ stack = <<>>
    /\ result \in OptimizeInputs
    /\ build = "none"
    /\ output = <<>>
    /\ outcome = "pending"
    /\ simplified2 = <<>>
    /\ sprite = NoSprite
    /\ idleDirectCalls

NextOptimize == Phase3Optimize

SpecOptimize == InitOptimize /\ [][NextOptimize]_vars

(***************************************************************************)
(* KeyboardControl: the browser delivers key events to the activated       *)
(* control of either copy of the game module.                              *)
(***************************************************************************)
InitKeys ==
    /\ caller = "browser"
    /\ tier = "none"
    /\ width = 0 /\ height = 0 /\ data = <<>> /\ threshold = GeneratorThreshold
    /\ tolerance = Zero
    /\ tolerance2 = Zero
    /\ contour = <<>>
    /\ pc = "listening"
    /\ start = -1
    /\ currentX = 0 /\ currentY = 0 /\ direction = 0 /\ iterations = 0
    /\ simplified = <<>>
    /\ stack = <<>>
    /\ result = <<>>
    /\ build = "none"
    /\ output = <<>>
    /\ outcome = "pending"
    /\ simplified2 = <<>>
    /\ sprite = NoSprite
    /\ verdict = FALSE
    /\ hull = <<>>
    /\ gameModule \in {"js/game.js", "part_004"}
    /\ pressedKeysBitField = 0
    /\ lastEventType = [code \in KeyCodes |-> "none"]
    /\ notified = <<>>
    /\ idleManager

\* the browser fires an event of the given type for the key code; the listener
\* runs handleKeyPress if activate registered it for that type
KeyEvent(type, code) ==
    /\ pc = "listening"
    /\ lastEventType' = IF type = "keypress" THEN lastEventType
                        ELSE [lastEventType EXCEPT ![code] = type]
    /\ IF type \in registeredTypes(gameModule)
       THEN /\ pressedKeysBitField' =
                   handleKeyPress(gameModule, pressedKeysBitField, type, code)
            /\ notified' = IF pressedKeysBitField' # pressedKeysBitField
                           THEN <<pressedKeysBitField, pressedKeysBitField'>>
                           ELSE notified
       ELSE UNCHANGED <<pressedKeysBitField, notified>>
    /\ UNCHANGED <<inputVars, traceVars, pc, contour, simplified, stack, result, build,
                   output, outcome, simplified2, sprite, verdict, hull, gameModule,
                   managerVars, loopVars>>

KeyDown == \E code \in KeyCodes : KeyEvent("keydown", code)
KeyPress == \E code \in KeyCodes : KeyEvent("keypress", code)
KeyUp == \E code \in KeyCodes : KeyEvent("keyup", code)

NextKeys ==
    \/ KeyDown
    \/ KeyPress
    \/ KeyUp

SpecKeys == InitKeys /\ [][NextKeys]_vars

(***************************************************************************)
(* ObjectManager: add, remove and commit called in any order.              *)
(***************************************************************************)
\* the variables of the pipeline, unused by the animation module
idlePipeline ==
    /\ tier = "none"
    /\ width = 0 /\ height = 0 /\ data = <<>> /\ threshold = GeneratorThreshold
    /\ tolerance = Zero
    /\ tolerance2 = Zero
    /\ contour = <<>>
    /\ start = -1
    /\ currentX = 0 /\ currentY = 0 /\ direction = 0 /\ iterations = 0
    /\ simplified = <<>>
    /\ stack = <<>>
    /\ result = <<>>
    /\ build = "none"
    /\ output = <<>>
    /\ outcome = "pending"
    /\ simplified2 = <<>>
    /\ sprite = NoSprite
    /\ verdict = FALSE
    /\ hull = <<>>
    /\ idleKeyboard

pipelineVars == <<inputVars, traceVars, contour, simplified, stack, result, build,
                  output, outcome, simplified2, sprite, verdict, hull, keyVars>>

InitManager ==
    /\ caller = "ObjectManager"
    /\ pc = "manager"
    /\ idlePipeline
    /\ idleManager

\* ObjectManager.prototype.add
ManagerAdd ==
    /\ pc = "manager"
    /\ counter < MaxObjects
    /\ \E order \in Orders :
          objects' = Append(objects, newObject(order, "plain"))
    /\ additions' = Append(additions, counter)
    /\ counter' = counter + 1
    /\ UNCHANGED <<pipelineVars, pc, animations, deletions, removedSinceCommit,
                   lastRemoved, loopVars>>

\* ObjectManager.prototype.remove
ManagerRemove ==
    /\ pc = "manager"
    /\ Len(deletions) < MaxPending
    /\ \E idx \in 0..(counter - 1) :
          /\ deletions' = Append(deletions, idx)
          /\ objects' = withState(objects, {idx}, "UNMANAGED_PENDING")
          /\ removedSinceCommit' = removedSinceCommit \cup {idx}
    /\ UNCHANGED <<pipelineVars, pc, animations, additions, counter, lastRemoved, loopVars>>

\* ObjectManager.prototype.commit
ManagerCommit ==
    /\ pc = "manager"
    /\ animations' = animationsAfterCommit(animations, deletions, additions, objects)
    /\ objects' = withState(objects, idxOf(deletions) \cap idxOf(animations), "UNMANAGED")
    /\ additions' = <<>>
    /\ deletions' = <<>>
    /\ lastRemoved' = removedSinceCommit
    /\ removedSinceCommit' = {}
    /\ UNCHANGED <<pipelineVars, pc, counter, loopVars>>

NextManager ==
    \/ ManagerAdd
    \/ ManagerRemove
    \/ ManagerCommit

SpecManager == InitManager /\ [][NextManager]_vars

(***************************************************************************)
(* The game loop of setupObjects.js: anim updates and paints the managed   *)
(* objects and commits; an object leaving the screen fires the OFF_SCREEN  *)
(* listener, which removes it, adds a new object and commits.              *)
(***************************************************************************)
\* the state the setup leaves: up to MaxObjects - 1 objects added, committed
InitLoop ==
    /\ caller = "gameLoop"
    /\ pc = "frame"
    /\ idlePipeline
    /\ \E n \in 1..(MaxObjects - 1) :
          /\ objects \in [1..n -> {newObject(order, kind) : order \in Orders, kind \in Kinds}]
          /\ counter = n
          /\ animations = sortByOrder([k \in 1..n |-> k - 1], objects, 1, <<>>)
    /\ additions = <<>> /\ deletions = <<>>
    /\ removedSinceCommit = {} /\ lastRemoved = {}
    /\ loopArray = <<>> /\ loopAliased = FALSE
    /\ loopIndex = 0 /\ loopLen = 0
    /\ updates = [idx \in 0..(MaxObjects - 1) |-> 0]
    /\ passStart = <<>>

\* anim is called: objectManager.getAnimations().forEach begins
StartPass ==
    /\ pc = "frame"
    /\ loopArray' = animations
    /\ loopAliased' = TRUE
    /\ loopIndex' = 0
    /\ loopLen' = Len(animations)
    /\ updates' = [idx \in 0..(MaxObjects - 1) |-> 0]
    /\ passStart' = animations
    /\ pc' = "update"
    /\ UNCHANGED <<pipelineVars, managerVars>>

\* the forEach finds no element at its index: the array has become shorter
SkipHole ==
    /\ loopIndex' = loopIndex + 1
    /\ UNCHANGED <<pipelineVars, pc, managerVars, loopArray, loopAliased, loopLen,
                   updates, passStart>>

\* update of an object that stays on the screen, or left it in an earlier
\* frame; anim removes it if update returned INACTIVE_PENDING
UpdateOnScreen(elem) ==
    /\ IF objects[elem + 1].kind = "indicator" /\ objects[elem + 1].offScreen
       THEN /\ deletions' = Append(deletions, elem)
            /\ objects' = withState(objects, {elem}, "UNMANAGED_PENDING")
            /\ removedSinceCommit' = removedSinceCommit \cup {elem}
       ELSE UNCHANGED <<deletions, objects, removedSinceCommit>>
    /\ UNCHANGED <<animations, additions, counter, lastRemoved, loopArray, loopAliased>>

\* the objects after the listener ran for elem: elem off the screen, removed
\* and unmanaged by the commit if it was in the list, a new object created
objectsAfterListener(objs, elem, list, dels, kind) ==
    Append(withState(withState([objs EXCEPT ![elem + 1].offScreen = TRUE],
                               {elem}, "UNMANAGED_PENDING"),
                     (idxOf(dels) \cup {elem}) \cap idxOf(list), "UNMANAGED"),
           newObject(0, kind))

\* update of an object that leaves the screen: its path animation fires
\* OFF_SCREEN and the listener removes the object, adds a new one and commits;
\* then anim removes the object again if update returned INACTIVE_PENDING
UpdateOffScreen(elem) ==
    /\ counter < MaxObjects
    /\ ~objects[elem + 1].offScreen
    /\ animations' = animationsAfterCommit(animations, Append(deletions, elem),
                                           Append(additions, counter),
                                           Append(objects, newObject(0, "plain")))
    /\ \E kind \in Kinds :
          objects' = IF objects[elem + 1].kind = "indicator"
                     THEN withState(objectsAfterListener(objects, elem, animations,
                                                         deletions, kind),
                                    {elem}, "UNMANAGED_PENDING")
                     ELSE objectsAfterListener(objects, elem, animations, deletions, kind)
    /\ additions' = <<>>
    /\ deletions' = IF objects[elem + 1].kind = "indicator" THEN <<elem>> ELSE <<>>
    /\ counter' = counter + 1
    /\ lastRemoved' = removedSinceCommit \cup {elem}
    /\ removedSinceCommit' = IF objects[elem + 1].kind = "indicator" THEN {elem} ELSE {}
    /\ loopArray' = IF loopAliased
                    THEN applyDeletions(loopArray, Append(deletions, elem), 1)
                    ELSE loopArray
    /\ loopAliased' = FALSE

\* one call of the forEach callback of the update pass
UpdateElem ==
    /\ pc = "update"
    /\ loopIndex < loopLen
    /\ IF loopIndex >= Len(loopArray)
       THEN SkipHole
       ELSE /\ \/ UpdateOnScreen(loopArray[loopIndex + 1])
               \/ UpdateOffScreen(loopArray[loopIndex + 1])
            /\ updates' = [updates EXCEPT ![loopArray[loopIndex + 1]] = @ + 1]
            /\ loopIndex' = loopIndex + 1
            /\ UNCHANGED <<pipelineVars, pc, loopLen, passStart>>

\* the update pass is over; the second forEach paints the managed objects
PaintPass ==
    /\ pc = "update"
    /\ loopIndex = loopLen
    /\ pc' = "commit"
    /\ UNCHANGED <<pipelineVars, managerVars, loopVars>>

\* objectManager.commit() at the end of anim
CommitPass ==
    /\ pc = "commit"
    /\ animations' = animationsAfterCommit(animations, deletions, additions, objects)
    /\ objects' = withState(objects, idxOf(deletions) \cap idxOf(animations), "UNMANAGED")
    /\ additions' = <<>>
    /\ deletions' = <<>>
    /\ lastRemoved' = removedSinceCommit
    /\ removedSinceCommit' = {}
    /\ pc' = "frame"
    /\ UNCHANGED <<pipelineVars, counter, loopVars>>

NextLoop ==
    \/ StartPass
    \/ UpdateElem
    \/ PaintPass
    \/ CommitPass

SpecLoop == InitLoop /\ [][NextLoop]_vars

(***************************************************************************)
(* Direct calls of convexHull on an array of grid points.                  *)
(***************************************************************************)
InitHull ==
    /\ caller = "convexHull"
    /\ tier = "none"
    /\ width = 0 /\ height = 0 /\ data = <<>> /\ threshold = GeneratorThreshold
    /\ tolerance = Zero
    /\ tolerance2 = Zero
    /\ contour \in UNION {[1..n -> GridPoints] : n \in 3..MaxPts}
    /\ pc = "hull"
    /\ start = -1
    /\ currentX = 0 /\ currentY = 0 /\ direction = 0 /\ iterations = 0
    /\ simplified = <<>>
    /\ stack = <<>>
    /\ result = <<>>
    /\ build = "none"
    /\ output = <<>>
    /\ outcome = "pending"
    /\ simplified2 = <<>>
    /\ sprite = NoSprite
    /\ idleDirectCalls

\* a convexHull that sorts the caller's array instead of a copy of it
ComputeHullInPlace ==
    /\ pc = "hull"
    /\ hull' = convexHull(contour)
    /\ contour' = IF Len(contour) < 3 THEN contour ELSE sortYX(contour, 1, <<>>)
    /\ pc' = "done"
    /\ outcome' = "returned"
    /\ UNCHANGED <<inputVars, traceVars, simplified, stack, result, build,
                   output, simplified2, sprite, verdict, keyVars,
                   managerVars, loopVars>>

ComputeHull ==
    /\ pc = "hull"
    /\ hull' = convexHull(contour)
    /\ pc' = "done"
    /\ outcome' = "returned"
    /\ UNCHANGED <<inputVars, traceVars, contour, simplified, stack, result, build,
                   output, simplified2, sprite, verdict, keyVars,
                   managerVars, loopVars>>

NextHull == ComputeHull

SpecHull == InitHull /\ [][NextHull]_vars

(***************************************************************************)
(* Every pipeline function with its caller: the pipeline on a mask and the *)
(* direct calls of isConvex and convexHull on a point array.               *)
(***************************************************************************)
InitCalls == Init \/ InitConvex \/ InitHull

NextCalls ==
    \/ Next
    \/ CheckConvex
    \/ ComputeHull

SpecCalls == InitCalls /\ [][NextCalls]_vars

(***************************************************************************)
(* Properties                                                              *)
(***************************************************************************)
decompositionCall == caller \in {"generateConvexDecompositionMeta", "api"}

\* C1: every polygon of the set computeOptimizedConvexDecomposition returns is
\* convex (isConvex is true of it), for every mask, threshold and tolerance.
C1_OutputConvex ==
    (pc = "done" /\ decompositionCall)
        => \A k \in 1..Len(output) : isConvex(output[k])

\* C2: no polygon returned by the pipeline or by phase3_optimizeConvexPolygons
\* (either copy) has fewer than 3 points.
C2_OutputAtLeastThreePoints ==
    (pc = "done" /\ decompositionCall)
        => \A k \in 1..Len(output) : Len(output[k]) >= 3

C4_ConvexContourKept ==
    (pc = "optimize" /\ Len(simplified) >= 3 /\ isConvex(simplified))
        => result = <<simplified>>

C4_Witness ==
    /\ pc = "optimize"
    /\ Len(simplified) >= 4
    /\ isConvex(simplified)
    /\ result = <<simplified>>

\* C5: when no pixel of the mask reaches the threshold, marchingSquares returns
\* an empty contour and the pipeline returns an empty result without an error.
noSolidPixel == \A k \in 1..(width * height) : data[k] < threshold

C5_EmptyMaskEmptyResult ==
    (pc = "done" /\ caller # "douglasPeucker" /\ noSolidPixel)
        => /\ contour = <<>>
           /\ simplified = <<>>
           /\ output = <<>>
           /\ outcome = "returned"

C5_Witness ==
    /\ pc = "done"
    /\ decompositionCall
    /\ width * height > 0
    /\ noSolidPixel
    /\ \E k \in 1..(width * height) : data[k] > 0
    /\ contour = <<>> /\ output = <<>> /\ outcome = "returned"

\* C6 (its case): the walk of marchingSquares ended because iterations reached
\* maxIterations while the current pixel was not the start pixel.  The source
\* returns the contour alone, so nothing could signal this case; no mask within
\* the bounds reaches it (walkNeverStoppedByCap is an invariant of Spec).
walkStoppedByCap ==
    /\ pc \notin {"start", "trace", "simplify"}
    /\ start # -1
    /\ (currentX # start % width \/ currentY # start \div width)
    /\ iterations >= maxIterationsOf(width, height)

walkNeverStoppedByCap == ~walkStoppedByCap

\* C7 as stated: an invocation with tolerance <= 0 or with a zero-area mask
\* region fails (reports an error) instead of returning a geometry result.
invalidParameters ==
    /\ caller # "douglasPeucker"
    /\ (RLe(tolerance, Zero) \/ width * height = 0)

C8_EndpointsPreserved ==
    (pc = "done" /\ Len(contour) >= 1)
        => /\ Len(simplified) >= 1
           /\ simplified[1] = contour[1]
           /\ simplified[Len(simplified)] = contour[Len(contour)]
           /\ Len(simplified2) >= 1
           /\ simplified2[1] = contour[1]
           /\ simplified2[Len(simplified2)] = contour[Len(contour)]

C8_Witness ==
    /\ pc = "done"
    /\ Len(contour) >= 4
    /\ Len(simplified) = 3
    /\ simplified[1] = contour[1]
    /\ simplified[3] = contour[Len(contour)]
    /\ contour[1] # contour[Len(contour)]

\* C9: for tolerances 0 <= t1 < t2, douglasPeucker(P, t1) has at least as many
\* points as douglasPeucker(P, t2).
C9_SimplifyMonotone ==
    (pc = "done" /\ RLe(Zero, tolerance) /\ RLt(tolerance, tolerance2))
        => Len(simplified) >= Len(simplified2)

C9_Witness ==
    /\ pc = "done"
    /\ RLe(Zero, tolerance) /\ RLt(tolerance, tolerance2)
    /\ Len(simplified) > Len(simplified2)
    /\ Len(simplified2) > 2

\* C10: for each tier the convex decomposition generator uses the tolerance of
\* the marching squares generator: low = 4.0, mid = 2.0, high = 1.0.
C10_SameTierTolerance ==
    caller = "generateConvexDecompositionMeta"
        => /\ tolerance = marchingSquaresTolerance(tier)
           /\ tolerance = (IF tier = "low" THEN <<4, 1>>
                           ELSE IF tier = "mid" THEN <<2, 1>> ELSE <<1, 1>>)

\* C11: in every sprite record of the convex decomposition generator,
\* polygonCount is the number of polygons of the returned set and totalPoints is
\* the number of points of exactly those polygons.
C11_CountersMatchOutput ==
    pc = "recorded"
        => /\ sprite.convexPolygons = output
           /\ sprite.polygonCount = Len(sprite.convexPolygons)
           /\ sprite.totalPoints =
                 Cardinality(UNION {{<<k, j>> : j \in 1..Len(sprite.convexPolygons[k])} :
                                      k \in 1..Len(sprite.convexPolygons)})

C11_Witness ==
    /\ pc = "recorded"
    /\ sprite.polygonCount >= 2
    /\ sprite.totalPoints >= 7

\* the segments p1-p2 and q1-q2 cross: each has its end points strictly on
\* opposite sides of the other
edgesCross(p1, p2, q1, q2) ==
    /\ Sgn(triangleArea(p1, p2, q1)) * Sgn(triangleArea(p1, p2, q2)) < 0
    /\ Sgn(triangleArea(q1, q2, p1)) * Sgn(triangleArea(q1, q2, p2)) < 0

\* two non-adjacent edges of the (closed) polygon cross
selfIntersecting(polygon) ==
    \E i, j \in 0..(Len(polygon) - 1) :
        /\ i < j
        /\ (i + 1) % Len(polygon) # j
        /\ (j + 1) % Len(polygon) # i
        /\ edgesCross(at(polygon, i), at(polygon, i + 1),
                      at(polygon, j), at(polygon, j + 1))

\* C12: a polygon of at least 3 points for which isConvex returns true has no
\* two non-adjacent edges that cross each other.
C12_AcceptedNotSelfIntersecting ==
    (pc = "done" /\ caller = "isConvex" /\ Len(contour) >= 3 /\ verdict)
        => ~selfIntersecting(contour)

\* the pixel (px, py) lies inside the mask and its alpha reaches the threshold
solidInMask(px, py) ==
    /\ 0 <= px /\ px < width /\ 0 <= py /\ py < height
    /\ data[py * width + px + 1] >= threshold

\* a solid pixel of the mask with an 8-neighbour that is not one
boundaryPixel(px, py) ==
    /\ solidInMask(px, py)
    /\ \E ox, oy \in {-1, 0, 1} :
          /\ <<ox, oy>> # <<0, 0>>
          /\ ~solidInMask(px + ox, py + oy)

\* C13: every point of the sequence marchingSquares returns is the coordinate
\* of a solid boundary pixel of the mask.
C13_ContourOnBoundary ==
    (pc \notin {"start", "trace"} /\ caller \in {"generateBoundingShapeMeta",
                                                 "generateConvexDecompositionMeta", "api"})
        => \A k \in 1..Len(contour) :
              /\ contour[k].x[2] = 1 /\ contour[k].y[2] = 1
              /\ boundaryPixel(contour[k].x[1], contour[k].y[1])

(***************************************************************************)
(* marchingSquares on its own: the walk, run to completion                 *)
(***************************************************************************)
NextWalk ==
    \/ MarchingSquaresStart
    \/ MarchingSquaresStep

\* a call of a JavaScript function runs until it returns
SpecWalk == Init /\ [][NextWalk]_vars /\ WF_vars(NextWalk)

\* C14: for every mask and threshold the contour walk terminates.  A pass that
\* moves back onto the start pixel is the last one, every other pass counts one
\* more step below width * height * 4, and the returned sequence never has more
\* than width * height * 4 points.
C14_WalkTerminates ==
    /\ [](/\ Len(contour) <= maxIterationsOf(width, height)
          /\ pc = "trace" => /\ iterations < maxIterationsOf(width, height)
                             /\ Len(contour) = iterations)
    /\ [][pc = "trace" =>
            /\ pc' = "trace" => iterations' = iterations + 1
            /\ (currentX' = start % width /\ currentY' = start \div width)
                  => pc' = "traced"]_vars
    /\ <>(pc = "traced")

\* a walk of eight passes that ended by coming back to its start pixel
C14_Witness ==
    /\ pc = "traced"
    /\ Len(contour) >= 8
    /\ iterations = Len(contour)
    /\ currentX = start % width /\ currentY = start \div width

\* the cross product of the cyclic consecutive triple that starts at index i
tripleCross(polygon, i) ==
    cross(Elem(polygon, i), Elem(polygon, (i + 1) % Len(polygon)),
          Elem(polygon, (i + 2) % Len(polygon)))

\* two of the triple cross products are non-zero and of opposite signs
oppositeTurns(polygon) ==
    \E i, j \in 0..(Len(polygon) - 1) :
        Sgn(tripleCross(polygon, i)) * Sgn(tripleCross(polygon, j)) = -1

\* C15: isConvex returns true for fewer than 3 points; for longer sequences it
\* returns false exactly when two cyclic consecutive-triple cross products are
\* non-zero with opposite signs, whatever zero cross products lie between.
C15_VerdictIsSignAgreement ==
    (pc = "done" /\ caller = "isConvex") =>
        IF Len(contour) < 3 THEN verdict
        ELSE verdict <=> ~oppositeTurns(contour)

\* a rejected polygon whose first cross product is zero, between two turns
\* of opposite signs
C15_Witness ==
    /\ pc = "done" /\ caller = "isConvex"
    /\ Len(contour) = 4
    /\ ~verdict
    /\ Sgn(tripleCross(contour, 0)) = 0
    /\ Sgn(tripleCross(contour, 1)) * Sgn(tripleCross(contour, 3)) = -1

\* the points all lie on one line (or are all the same point)
allCollinear(points) ==
    \A i, j, k \in 1..Len(points) :
        Sgn(cross(points[i], points[j], points[k])) = 0

\* no point occurs twice: the array is a point set
distinctPoints(points) ==
    Cardinality({points[k] : k \in 1..Len(points)}) = Len(points)

\* every cyclically consecutive triple of the polygon is a strict left turn
strictlyCounterClockwise(polygon) ==
    \A i \in 0..(Len(polygon) - 1) : Sgn(tripleCross(polygon, i)) > 0

\* C16: for any point set of at least 3 points convexHull returns the hull in
\* counter-clockwise order, every cyclically consecutive triple of returned
\* vertices having a positive cross product, so the result is always convex.
C16_HullCounterClockwise ==
    (pc = "done" /\ caller = "convexHull" /\ Len(contour) >= 3
        /\ distinctPoints(contour))
        => /\ strictlyCounterClockwise(hull)
           /\ isConvex(hull)

\* C16 amended: the same for point sets that are not all on one line.
C16_HullCounterClockwiseUnlessCollinear ==
    (pc = "done" /\ caller = "convexHull" /\ Len(contour) >= 3
        /\ ~allCollinear(contour))
        => /\ strictlyCounterClockwise(hull)
           /\ isConvex(hull)

\* four points, one of them dropped from a hull of three
C16_Witness ==
    /\ pc = "done" /\ caller = "convexHull"
    /\ Len(contour) = 4
    /\ ~allCollinear(contour)
    /\ Len(hull) = 3
    /\ distinctPoints(contour)

\* the tolerance the copy that ran passes to douglasPeucker
optimizeTolerance ==
    IF build = "node" THEN RMax(RMul(tolerance, <<3, 10>>), <<1, 2>>) ELSE tolerance

\* the simplified form of the k-th input polygon
simplifiedOf(k) == douglasPeucker(result[k], optimizeTolerance)

\* q is what the claim allows to be kept for the k-th input polygon: the
\* simplified polygon if it is convex, or the unmodified polygon
keptAsClaimed(k, q) ==
    \/ q = result[k]
    \/ q = simplifiedOf(k) /\ isConvex(simplifiedOf(k))

\* C17: for each input polygon, optimize keeps the simplified polygon only if
\* isConvex(simplified) is true; otherwise the polygon it keeps is the
\* unmodified pre-simplification polygon.  The returned polygons are, in
\* order, what was kept for the input polygons they come from.
C17_SimplifiedKeptOnlyIfConvex ==
    (pc = "done" /\ build # "none") =>
        \E g \in [1..Len(output) -> 1..Len(result)] :
            /\ \A i, j \in 1..Len(output) : i < j => g[i] < g[j]
            /\ \A j \in 1..Len(output) : keptAsClaimed(g[j], output[j])
            /\ \A k \in 1..Len(result) :
                  ~isConvex(simplifiedOf(k))
                      => \E j \in 1..Len(output) : g[j] = k /\ output[j] = result[k]

\* a polygon that simplification changed into a non-convex one, kept unmodified
C17_Witness ==
    /\ pc = "done" /\ build # "none"
    /\ Len(result) = 1
    /\ ~isConvex(simplifiedOf(1))
    /\ simplifiedOf(1) # result[1]
    /\ output = result

\* C18: the browser copy of phase3_optimizeConvexPolygons applies the same fix
\* as the Node.js copy (reduced tolerance, polygons of fewer than 3 points
\* removed), so for every polygon list and tolerance what the copy that ran
\* returned is what either copy returns.
C18_CopiesAgree ==
    (pc = "done" /\ build # "none") =>
        /\ output = phase3_optimizeConvexPolygons("node", result, tolerance)
        /\ output = phase3_optimizeConvexPolygons("browser", result, tolerance)

\* the bit of the direction is set in the field
hasBit(field, keyValue) == (field \div keyValue.bit) % 2 = 1

ConfiguredCodes == {ConfiguredKeys.leftKey, ConfiguredKeys.upKey,
                    ConfiguredKeys.rightKey, ConfiguredKeys.downKey}

Directions == {DIRECTION.LEFT, DIRECTION.UP, DIRECTION.RIGHT, DIRECTION.DOWN}

\* C19: releasing a key is idempotent: for the bitfield of any reachable state,
\* applying the release operation for a key once or twice in a row yields the
\* same bitfield, with that key's bit clear and all other bits unchanged.
C19_ReleaseIdempotent ==
    caller = "browser" =>
        \A d \in Directions :
            /\ up(gameModule, up(gameModule, pressedKeysBitField, d), d)
                  = up(gameModule, pressedKeysBitField, d)
            /\ ~hasBit(up(gameModule, pressedKeysBitField, d), d)
            /\ \A e \in Directions \ {d} :
                  hasBit(up(gameModule, pressedKeysBitField, d), e)
                      <=> hasBit(pressedKeysBitField, e)

\* C20: after any sequence of keydown and keyup events on the four configured
\* keys, the bit of a key is set exactly when the most recent event for that
\* key was a keydown; the bitfield is 0 whenever every key has been released.
C20_BitFollowsLastEvent ==
    caller = "browser" =>
        /\ \A code \in ConfiguredCodes :
              hasBit(pressedKeysBitField, directionOf(code))
                  <=> lastEventType[code] = "keydown"
        /\ (\A code \in ConfiguredCodes : lastEventType[code] # "keydown")
              => pressedKeysBitField = 0

\* C29: after commit, no object for which remove was called since the previous
\* commit is in the managed list, an object whose add was still pending when
\* remove was called included.
C29_RemovedNotManaged ==
    caller = "ObjectManager" => lastRemoved \cap idxOf(animations) = {}

\* C21: objects passed to add or remove are only recorded as pending: the
\* managed list changes only in commit, and commit is applied only at the end
\* of a game-loop pass, never while the update pass is still in progress.
C21_ListChangesOnlyAtEndOfPass ==
    [][(caller = "gameLoop" /\ animations' # animations) => pc = "commit"]_vars

\* C30: in one pass of the game loop update is called exactly once on every
\* object that was in the managed list at the start of the pass.
C30_EveryObjectUpdatedOnce ==
    (caller = "gameLoop" /\ pc = "commit")
        => \A idx \in idxOf(passStart) : updates[idx] = 1

\* a call of bayazitDecomposition that reaches the body of the loop over i:
\* the polygon on top of the stack is split at its first reflex vertex
reflexCall ==
    /\ pc = "bayazit" /\ stack # <<>>
    /\ Len(Head(stack).polygon) >= 3
    /\ Head(stack).level <= MaxLevel
    /\ ~isConvex(Head(stack).polygon)
    /\ firstReflex(Head(stack).polygon) # -1

splitPolygon == Head(stack).polygon
splitVertex == firstReflex(splitPolygon)
\* the lower and upper cut candidates found for the reflex vertex
splitCandidates == scanCandidates(splitPolygon, splitVertex, 0, bayazitLocals)
adjacentCandidates ==
    splitCandidates.lowerIndex = (splitCandidates.upperIndex + 1) % Len(splitPolygon)

\* the midpoint of the two intersection points
steinerPoint ==
    [x |-> RDiv(RAdd(splitCandidates.lowerInt.x, splitCandidates.upperInt.x), R(2)),
     y |-> RDiv(RAdd(splitCandidates.lowerInt.y, splitCandidates.upperInt.y), R(2))]

hasPoint(polygon, p) == \E k \in 1..Len(polygon) : polygon[k] = p

\* C24: when the lower and upper cut candidates of reflex vertex i lie on
\* cyclically adjacent indices, the polygon is split into exactly two
\* sub-polygons, and both contain vertex i and the Steiner point.
C24_SteinerSplitThroughVertexAndPoint ==
    [][(reflexCall /\ adjacentCandidates) =>
          /\ Len(stack') = Len(stack) + 1
          /\ result' = result
          /\ \A k \in 1..2 :
                /\ hasPoint(stack'[k].polygon, Elem(splitPolygon, splitVertex))
                /\ hasPoint(stack'[k].polygon, steinerPoint)]_vars

\* two pending calls that share a point off the pixel grid: the Steiner point
\* that closes the lower polygon and opens the upper one
C24_Witness ==
    /\ pc = "bayazit" /\ Len(stack) >= 2
    /\ Len(stack[1].polygon) >= 3 /\ Len(stack[2].polygon) >= 3
    /\ stack[1].polygon[Len(stack[1].polygon)] = stack[2].polygon[1]
    /\ stack[2].polygon[1].x[2] # 1

\* the index span the vertex branch searches: lowerIndex .. upperIndex, the
\* upper index moved up by the polygon length when it is the smaller one
searchSpan ==
    splitCandidates.lowerIndex ..
        (IF splitCandidates.lowerIndex > splitCandidates.upperIndex
         THEN splitCandidates.upperIndex + Len(splitPolygon)
         ELSE splitCandidates.upperIndex)

\* the indices of the span whose vertex is visible from the reflex vertex
visibleInSpan ==
    {j \in searchSpan : canSee(splitPolygon, splitVertex, j % Len(splitPolygon))}

\* C22: in the non-adjacent case the polygon is split through reflex vertex i
\* and a vertex of the index span between the two candidate indices that is
\* visible from i and has the minimum squared distance to i among such
\* vertices; a vertex the search did not find is never the cut vertex.
C22_CutVertexIsClosestVisible ==
    [][(reflexCall /\ ~adjacentCandidates) =>
          \E j \in visibleInSpan :
              /\ stack'[1].polygon[Len(stack'[1].polygon)] = at(splitPolygon, j)
              /\ stack'[2].polygon[1] = at(splitPolygon, j)
              /\ hasPoint(stack'[1].polygon, Elem(splitPolygon, splitVertex))
              /\ hasPoint(stack'[2].polygon, Elem(splitPolygon, splitVertex))
              /\ \A m \in visibleInSpan :
                    RLe(sqdist(at(splitPolygon, splitVertex), at(splitPolygon, j)),
                        sqdist(at(splitPolygon, splitVertex), at(splitPolygon, m)))]_vars

\* C27: every split of the recursive decomposition produces two sub-polygons
\* that each have strictly fewer vertices than the polygon being split, so
\* the recursion ends without relying on the depth cap.
C27_SplitsShrink ==
    [][reflexCall =>
          /\ Len(stack'[1].polygon) < Len(splitPolygon)
          /\ Len(stack'[2].polygon) < Len(splitPolygon)]_vars

\* the number of points of a polygon list
RECURSIVE totalPointsOf(_, _)
totalPointsOf(polygons, k) ==
    IF k > Len(polygons) THEN 0
    ELSE Len(polygons[k]) + totalPointsOf(polygons, k + 1)

\* C23: for a non-convex contour the polygons returned by decomposition and
\* optimization contain in total at least as many points as the contour has
\* distinct vertices (Steiner points only add to the total), so that no
\* contour vertex is lost from the output.
C23_NoVertexLost ==
    (pc = "done" /\ decompositionCall /\ outcome = "returned"
        /\ Len(simplified) >= 3 /\ ~isConvex(simplified))
        => totalPointsOf(output, 1)
               >= Cardinality({simplified[k] : k \in 1..Len(simplified)})

\* C25: for every positive tolerance passed to optimize, the reduced tolerance
\* it simplifies with, max(tolerance * 0.3, 0.5), is smaller than the
\* phase-1 tolerance it was given.
C25_ReducedToleranceIsSmaller ==
    (pc = "done" /\ outcome = "returned" /\ build = "node"
        /\ RLt(Zero, tolerance))
        => RLt(optimizeTolerance, tolerance)

\* C26: no pipeline function (trace, simplify, convexHull, isConvex,
\* decompose, optimize) modifies the mask or the point sequence passed to it:
\* over every step the mask is unchanged, and over the step of each function
\* the point sequence or polygon list it was given is unchanged.
C26_InputsUnchanged ==
    [][/\ <<width, height, data>>' = <<width, height, data>>
       /\ (pc \in {"traced", "hull", "check"} => contour' = contour)
       /\ (pc \in {"decompose", "bayazit"} => simplified' = simplified)
       /\ (pc = "bayazit" /\ stack # <<>> =>
              \/ result' = result
              \/ result' = Append(result, Head(stack).polygon))
       /\ (pc = "optimize" => result' = result)]_vars

\* the whole pipeline ran on a mask: the simplification dropped contour
\* points, the decomposition split the polygon and the optimization returned
C26_Witness ==
    /\ pc = "done" /\ decompositionCall /\ outcome = "returned"
    /\ Len(simplified) < Len(contour)
    /\ Len(result) >= 2
    /\ Len(output) >= 2

\* twice the signed area of a closed point sequence, summed edge by edge with
\* triangleArea from the origin (positive for the winding isLeft calls left)
RECURSIVE signedArea(_, _)
signedArea(points, k) ==
    IF k > Len(points) THEN Zero
    ELSE RAdd(triangleArea([x |-> Zero, y |-> Zero], points[k], at(points, k)),
              signedArea(points, k + 1))

\* C28: for every mask, the contour returned by the tracer and its
\* simplification are wound in the orientation the decomposer assumes: the
\* signed area under the triangleArea sign convention is not negative.
C28_ContourOrientation ==
    (pc = "decompose" /\ decompositionCall) =>
        /\ ~RLt(signedArea(contour, 1), Zero)
        /\ ~RLt(signedArea(simplified, 1), Zero)

=============================================================================
